---- MODULE Spec2Model ----
(***************************************************************************)
(* Model of the rosetta backend API (backend-api/main.go, models):         *)
(* the Story/Segment document handlers createStory, deleteStory and        *)
(* updateStory over the "stories" collection, and the audio upload URL     *)
(* handler generateAudioUploadURL.                                         *)
(*                                                                         *)
(* Handlers run concurrently (net/http serves each request on its own      *)
(* goroutine).  createStory and deleteStory make one store round trip and  *)
(* are one step each; updateStory makes two (UpdateOne, then FindOne) and  *)
(* is two steps, so that other requests interleave between them.           *)
(*                                                                         *)
(* ObjectIDs are modelled as integers: 0 is the zero ObjectID              *)
(* (primitive.NilObjectID), 1, 2, ... are the values primitive.NewObjectID *)
(* hands out in this process, and ForeignOids are well-formed ids this     *)
(* process never generates.  The clock counts in the store's timestamp     *)
(* resolution.                                                             *)
(***************************************************************************)
EXTENDS Integers, Sequences, FiniteSets, TLC

\* ---------------------------------------------------------------- bounds
\* Number of ObjectIDs primitive.NewObjectID may hand out in one behaviour.
MaxOid == 3
\* Number of stories created in one behaviour.
MaxStories == 2
\* The clock's last tick between requests.
MaxTime == 3

\* ------------------------------------------------------------ input sets
Handlers == {"h1", "h2"}
ForeignOids == {901}
GenOids == 1..MaxOid
Titles == {"T", "U"}
\* timestamps a client may put in a request body
ClientTimes == {77}

VARIABLES
    store,      \* collection "stories": ObjectID -> BSON document, or NoDoc
    nextOid,    \* the next value primitive.NewObjectID returns
    now,        \* time.Now()
    inflight,   \* per handler: where the call it serves stands, and what it holds
    watch,      \* history: the request of one updateStory call in flight
    resp,       \* the response written by the last step
    s3,         \* s3Bucket, s3Endpoint, s3PublicHost: set once by main()
    deleted,    \* history: ids for which a deleteStory answered 204
    removed,    \* history: ids whose document a deleteStory removed
    born,       \* history: id -> CreatedAt stored by createStory
    issued      \* history: the last answer of generateAudioUploadURL

vars == <<store, nextOid, now, inflight, watch, resp, s3, deleted, removed, born, issued>>

\* ------------------------------------------------- Go values (models pkg)
\* a nil pointer field (*Audio, *Image, *Script)
NilPtr == [ptr |-> "nil"]
AudioOf(u) == [Url |-> u]
ImageOf(u) == [Url |-> u]
ScriptOf(t) == [Text |-> t]

\* type Segment struct
Segment(id, audio, image, script) ==
    [ID |-> id, Audio |-> audio, Image |-> image, Script |-> script]

\* a []Segment: Go tells a nil slice from an empty one
NilSlice == [isNil |-> TRUE, elems |-> <<>>]
MakeSlice(s) == [isNil |-> FALSE, elems |-> s]

\* type Story struct
Story(id, title, segments, createdAt, isPublished) ==
    [ID |-> id, Title |-> title, Segments |-> segments,
     CreatedAt |-> createdAt, IsPublished |-> isPublished]

\* primitive.ObjectID.IsZero
IsZero(id) == id = 0

NoDoc == [type |-> "none"]
Idle == [pc |-> "idle"]

\* ------------------------------------------------ encoding/json (request)
\* A request body is malformed, or a JSON object: a function from the keys
\* it carries to their values.  Segment objects are written in decoded form
\* (their keys "id", "audio", "image", "script" match the Segment fields).
Malformed == [ok |-> FALSE]
JsonBody(obj) == [ok |-> TRUE, json |-> obj]

\* strings.ToLower on the keys and field names that occur
Lower(k) ==
    CASE k = "ID" -> "id"
      [] k = "Title" -> "title"
      [] k = "Segments" -> "segments"
      [] k = "CreatedAt" -> "createdat"
      [] k = "IsPublished" -> "ispublished"
      [] OTHER -> k

\* Story and Segment carry bson tags only, so json.Decoder matches an object
\* key to the Go field whose name equals it case-insensitively.
JsonField(obj, field, default) ==
    IF \E k \in DOMAIN obj : Lower(k) = Lower(field)
    THEN obj[CHOOSE k \in DOMAIN obj : Lower(k) = Lower(field)]
    ELSE default

\* json.NewDecoder(r.Body).Decode(&story) on a well-formed object
Decode(obj) ==
    Story(JsonField(obj, "ID", 0),
          JsonField(obj, "Title", ""),
          IF \E k \in DOMAIN obj : Lower(k) = Lower("Segments")
          THEN MakeSlice(JsonField(obj, "Segments", <<>>))
          ELSE NilSlice,
          JsonField(obj, "CreatedAt", 0),
          JsonField(obj, "IsPublished", FALSE))

\* The {id} path variable is a string: either the 24 hex digits of an
\* ObjectID, or anything else.
HexOf(oid) == [wellFormed |-> TRUE, digits |-> oid]
BadHex == [wellFormed |-> FALSE, text |-> "not-hex"]

\* a parse that lets every string through
ObjectIDFromHex_Lenient(hex) ==
    [err |-> FALSE, oid |-> IF hex.wellFormed THEN hex.digits ELSE 0]

\* primitive.ObjectIDFromHex
ObjectIDFromHex(hex) ==
    IF hex.wellFormed THEN [err |-> FALSE, oid |-> hex.digits] ELSE [err |-> TRUE]

\* ------------------------------------------------------- BSON (the store)
BsonNull == [type |-> "null"]
BsonArray(s) == [type |-> "array", elems |-> s]
NoField == <<>>

\* Audio / Image: `bson:"url,omitempty"`
UrlToBson(v) == IF v.Url = "" THEN NoField ELSE "url" :> v.Url
UrlFromBson(b) == [Url |-> IF "url" \in DOMAIN b THEN b["url"] ELSE ""]

\* Segment: every field is omitempty
SegmentToBson(s) ==
    (IF IsZero(s.ID) THEN NoField ELSE "_id" :> s.ID)
    @@ (IF s.Audio = NilPtr THEN NoField ELSE "audio" :> UrlToBson(s.Audio))
    @@ (IF s.Image = NilPtr THEN NoField ELSE "image" :> UrlToBson(s.Image))
    @@ (IF s.Script = NilPtr THEN NoField ELSE "script" :> ("text" :> s.Script.Text))

SegmentFromBson(b) ==
    Segment(IF "_id" \in DOMAIN b THEN b["_id"] ELSE 0,
            IF "audio" \in DOMAIN b THEN UrlFromBson(b["audio"]) ELSE NilPtr,
            IF "image" \in DOMAIN b THEN UrlFromBson(b["image"]) ELSE NilPtr,
            IF "script" \in DOMAIN b THEN [Text |-> b["script"]["text"]] ELSE NilPtr)

\* a []Segment value: a nil slice is written as BSON null
SegmentsToBson(sl) ==
    IF sl.isNil THEN BsonNull
    ELSE BsonArray([i \in 1..Len(sl.elems) |-> SegmentToBson(sl.elems[i])])

SegmentsFromBson(b) ==
    IF b = BsonNull THEN NilSlice
    ELSE MakeSlice([i \in 1..Len(b.elems) |-> SegmentFromBson(b.elems[i])])

\* Story: `_id,omitempty`, the other fields always written
StoryToBson(st) ==
    (IF IsZero(st.ID) THEN NoField ELSE "_id" :> st.ID)
    @@ ("title" :> st.Title)
    @@ ("segments" :> SegmentsToBson(st.Segments))
    @@ ("created_at" :> st.CreatedAt)
    @@ ("is_published" :> st.IsPublished)

StoryFromBson(d) ==
    Story(IF "_id" \in DOMAIN d THEN d["_id"] ELSE 0,
          d["title"],
          SegmentsFromBson(d["segments"]),
          d["created_at"],
          d["is_published"])

\* ---------------------------------------------------------- request inputs
\* A segment a client sends is either a new one (no id yet, a script only)
\* or one it has been handed before (an id, and by now its media).
NewSegment == Segment(0, NilPtr, NilPtr, ScriptOf("hi"))
KnownSegment(id) == Segment(id, AudioOf("a.mp3"), ImageOf("i.png"), NilPtr)

\* The segment lists of a client that edits a story: none, one new segment,
\* a segment it was handed followed by a new one, or the same segment twice.
EditLists(ids) ==
    {<<>>, <<NewSegment>>}
    \cup { <<KnownSegment(id), NewSegment>> : id \in ids }
    \cup { <<KnownSegment(id), KnownSegment(id)>> : id \in ids }

\* The keys a body carries besides "segments": the wire contract's names,
\* or the names the server's own responses use (a client echoing a response).
Envelopes ==
    { "title" :> "T", ("title" :> "U") @@ ("is_published" :> TRUE) }
    \cup { ("ID" :> id) @@ ("Title" :> "U") @@ ("CreatedAt" :> t)
              @@ ("IsPublished" :> TRUE) : id \in ForeignOids, t \in ClientTimes }

\* ids a client can put in a segment: any ObjectID, whether the server has
\* handed it out (to a segment or to a story) or not (yet)
ClientOids == GenOids

\* The bodies of requests that race with one another: malformed, a title
\* alone, and an echoed response with a list of one new segment.
RaceBodies ==
    { Malformed, JsonBody("title" :> "T") } \cup
    { JsonBody(env @@ ("segments" :> <<NewSegment>>)) :
        env \in { e \in Envelopes : "ID" \in DOMAIN e } }

\* The bodies of the creates next to an edit: malformed, a title alone, a
\* title with the flag.
CreateBodies ==
    { Malformed,
      JsonBody("title" :> "T"),
      JsonBody(("title" :> "U") @@ ("is_published" :> TRUE)) }

\* The body of the updates that overlap an edit: a title with one new
\* segment.
OverlapBodies ==
    { JsonBody(("title" :> "T") @@ ("segments" :> <<NewSegment>>)) }

\* The bodies of the update a client makes when it edits a story: a title
\* with the flag, and a title with each non-empty list of EditLists.
EditBodies ==
    { JsonBody(("title" :> "U") @@ ("is_published" :> TRUE)) } \cup
    { JsonBody(("title" :> "T") @@ ("segments" :> l)) :
        l \in EditLists(ClientOids) \ {<<>>} }

\* the {id} path variable of PUT/DELETE /stories/{id}: malformed, or any
\* well-formed id: one the server has handed out, to a story or to a
\* segment, or one it has not handed out (yet)
HexIds ==
    {BadHex} \cup { HexOf(oid) : oid \in GenOids }

\* ------------------------------------------------------------- the store
AllOids == GenOids \cup ForeignOids

\* collection.InsertOne(ctx, story)
InsertOne(st, story) == [st EXCEPT ![story.ID] = StoryToBson(story)]

\* collection.DeleteOne(ctx, bson.M{"_id": objectID})
DeleteOne(st, oid) == [st EXCEPT ![oid] = NoDoc]

\* an update that inserts the document when the filter matches nothing
UpdateOne_Upsert(st, oid, story) ==
    [st EXCEPT ![oid] =
        IF @ = NoDoc
        THEN StoryToBson([story EXCEPT !.ID = oid])
        ELSE [@ EXCEPT !["title"] = story.Title,
                       !["segments"] = SegmentsToBson(story.Segments),
                       !["is_published"] = story.IsPublished]]

\* an update whose $set leaves out is_published
UpdateOne_DropsFlag(st, oid, story) ==
    IF st[oid] = NoDoc THEN st
    ELSE [st EXCEPT ![oid] =
            [@ EXCEPT !["title"] = story.Title,
                      !["segments"] = SegmentsToBson(story.Segments)]]

\* an update whose $set also writes created_at from the request
UpdateOne_SetsCreatedAt(st, oid, story) ==
    IF st[oid] = NoDoc THEN st
    ELSE [st EXCEPT ![oid] =
            [@ EXCEPT !["title"] = story.Title,
                      !["segments"] = SegmentsToBson(story.Segments),
                      !["created_at"] = story.CreatedAt,
                      !["is_published"] = story.IsPublished]]

\* an update whose $set leaves out a segment list that is nil
UpdateOne_SkipsNull(st, oid, story) ==
    IF st[oid] = NoDoc THEN st
    ELSE [st EXCEPT ![oid] =
            [@ EXCEPT !["title"] = story.Title,
                      !["segments"] = IF story.Segments.isNil THEN @
                                      ELSE SegmentsToBson(story.Segments),
                      !["is_published"] = story.IsPublished]]

\* collection.UpdateOne(ctx, bson.M{"_id": objectID}, {"$set": {...}}):
\* no upsert option, so a filter that matches nothing changes nothing
UpdateOne(st, oid, story) ==
    IF st[oid] = NoDoc THEN st
    ELSE [st EXCEPT ![oid] =
            [@ EXCEPT !["title"] = story.Title,
                      !["segments"] = SegmentsToBson(story.Segments),
                      !["is_published"] = story.IsPublished]]

\* ------------------------------------------------------------- responses
\* `resp` is what the last step wrote to its http.ResponseWriter, NoResponse
\* when it wrote nothing.  `id` is the story the request addressed and
\* `valid` whether the request was well-formed (its id parses, its body is
\* JSON); a failure carries the text given to http.Error, a success the
\* story that was encoded and the watched call.
InvalidStoryID == "Invalid story ID"
JsonError == "json: cannot decode"
StoreError == "store: no answer"
ErrNoDocuments == "mongo: no documents in result"
NoResponse == [op |-> "none", status |-> 0]
NoCall == [h |-> "nobody"]
Response(op, status, hex, valid, msg) ==
    [op |-> op, status |-> status, id |-> hex, valid |-> valid, msg |-> msg]
StoryResponse(op, status, hex, call, story) ==
    [op |-> op, status |-> status, id |-> hex, valid |-> TRUE,
     call |-> call, story |-> story]
\* the 500 of an updateStory call whose FindOne failed, with the watched call
ReadFailure(hex, call, msg) ==
    [op |-> "update", status |-> 500, id |-> hex, valid |-> TRUE,
     msg |-> msg, call |-> call]
\* the 204 of deleteStory; `deletedCount` is the DeleteResult the handler
\* discards: how many documents the filter matched
DeleteResponse(hex, deletedCount) ==
    [op |-> "delete", status |-> 204, id |-> hex, valid |-> TRUE,
     msg |-> "", deletedCount |-> deletedCount]

\* ------------------------------------------------------------ createStory
\* a create that leaves a nil segment list as it is
NormalizeSegments_Skip(story) == story

\* "Initialize Segments to an empty array if it's nil"
NormalizeSegments(story) ==
    IF story.Segments.isNil
    THEN [story EXCEPT !.Segments = MakeSlice(<<>>)]
    ELSE story

\* the createStory calls between NewObjectID and InsertOne
Inserting == { h \in Handlers : inflight[h].pc = "inserting" }

\* Decode, the nil check, primitive.NewObjectID and time.Now: the handler
\* now holds the story it is about to hand to InsertOne.
CreateStoryDecode(h, body) ==
    /\ inflight[h] = Idle
    /\ nextOid <= MaxOid
    /\ Cardinality({ oid \in GenOids : born[oid] # 0 }) + Cardinality(Inserting)
          < MaxStories
    /\ IF ~body.ok
       THEN /\ resp' = Response("create", 400, HexOf(nextOid), FALSE, JsonError)
            /\ UNCHANGED <<store, nextOid, now, inflight, watch, s3, issued, deleted, removed, born>>
       ELSE LET normalized == NormalizeSegments(Decode(body.json))
                story == [normalized EXCEPT !.ID = nextOid, !.CreatedAt = now]
            IN /\ nextOid' = nextOid + 1
               /\ now' = now + 1
               /\ inflight' = [inflight EXCEPT ![h] =
                     [pc |-> "inserting", objectID |-> story.ID,
                      story |-> story, body |-> body]]
               /\ resp' = NoResponse
               /\ UNCHANGED <<store, watch, s3, issued, deleted, removed, born>>

\* collection.InsertOne and the response.  `ok` is whether the store answers
\* the InsertOne without an error.
CreateStoryInsert(h, ok) ==
    /\ inflight[h].pc = "inserting"
    /\ LET story == inflight[h].story
           hex == HexOf(story.ID)
       IN /\ IF ok
             THEN /\ store' = InsertOne(store, story)
                  /\ born' = [born EXCEPT ![story.ID] = story.CreatedAt]
                  /\ resp' = StoryResponse("create", 201, hex,
                                [h |-> "create", body |-> inflight[h].body], story)
             ELSE /\ resp' = Response("create", 500, hex, TRUE, StoreError)
                  /\ UNCHANGED <<store, born>>
          /\ inflight' = [inflight EXCEPT ![h] = Idle]
          /\ UNCHANGED <<nextOid, now, watch, s3, issued, deleted, removed>>

\* ------------------------------------------------------------ deleteStory
\* a delete that looks at the DeleteResult and answers 404 when the filter
\* matched nothing
DeleteStory_NotFound(hex, ok) ==
    LET parsed == ObjectIDFromHex(hex)
    IN IF parsed.err
       THEN /\ resp' = Response("delete", 400, hex, hex.wellFormed, InvalidStoryID)
            /\ UNCHANGED <<store, nextOid, now, inflight, watch, s3, issued, deleted, removed, born>>
       ELSE /\ IF ok /\ store[parsed.oid] # NoDoc
               THEN /\ store' = DeleteOne(store, parsed.oid)
                    /\ deleted' = deleted \cup {parsed.oid}
                    /\ removed' = removed \cup {parsed.oid}
                    /\ resp' = DeleteResponse(hex, 1)
               ELSE /\ resp' = Response("delete", IF ok THEN 404 ELSE 500, hex,
                                        hex.wellFormed, StoreError)
                    /\ UNCHANGED <<store, deleted, removed>>
            /\ UNCHANGED <<nextOid, now, inflight, watch, s3, issued, born>>

DeleteStory(hex, ok) ==
    LET parsed == ObjectIDFromHex(hex)
    IN IF parsed.err
       THEN /\ resp' = Response("delete", 400, hex, hex.wellFormed, InvalidStoryID)
            /\ UNCHANGED <<store, nextOid, now, inflight, watch, s3, issued, deleted, removed, born>>
       ELSE /\ IF ok
               THEN /\ store' = DeleteOne(store, parsed.oid)
                    /\ deleted' = deleted \cup {parsed.oid}
                    /\ removed' = IF store[parsed.oid] = NoDoc
                                  THEN removed
                                  ELSE removed \cup {parsed.oid}
                    /\ resp' = DeleteResponse(hex,
                                  IF store[parsed.oid] = NoDoc THEN 0 ELSE 1)
               ELSE /\ resp' = Response("delete", 500, hex, hex.wellFormed, StoreError)
                    /\ UNCHANGED <<store, deleted, removed>>
            /\ UNCHANGED <<nextOid, now, inflight, watch, s3, issued, born>>

\* ------------------------------------------------------------ updateStory
\* number of segments before position i that arrive without an id
ZerosBefore(elems, i) == Cardinality({ j \in 1..(i - 1) : IsZero(elems[j].ID) })

\* a loop that gives every segment a new id, whether it has one or not
EnsureSegmentIDs_Regenerate(elems, next) ==
    [i \in 1..Len(elems) |-> [elems[i] EXCEPT !.ID = next + i - 1]]

\* the loop "Ensure segments have IDs": NewObjectID for each zero id, in order
EnsureSegmentIDs(elems, next) ==
    [i \in 1..Len(elems) |->
        IF IsZero(elems[i].ID)
        THEN [elems[i] EXCEPT !.ID = next + ZerosBefore(elems, i)]
        ELSE elems[i]]

\* history: the watched call's write stays `clean` until another call's
\* UpdateOne changes the same document
Overwritten(h, oid) ==
    IF watch # NoCall /\ watch.h # h /\ watch.oid = oid /\ store[oid] # NoDoc
    THEN [watch EXCEPT !.clean = FALSE]
    ELSE watch

\* ObjectIDFromHex, Decode and the loop "Ensure segments have IDs": the
\* handler now holds the story it is about to hand to UpdateOne.  With `w`
\* the call becomes the watched one: its request and that story are kept.
UpdateStoryDecode(h, hex, body, w) ==
    /\ inflight[h] = Idle
    /\ w => watch = NoCall
    /\ LET parsed == ObjectIDFromHex(hex)
           valid == hex.wellFormed /\ body.ok
       IN IF parsed.err \/ ~body.ok
          THEN /\ resp' = Response("update", 400, hex, valid,
                                IF parsed.err THEN InvalidStoryID ELSE JsonError)
               /\ UNCHANGED <<store, nextOid, now, inflight, watch, s3, issued, deleted, removed, born>>
          ELSE LET decoded == Decode(body.json)
                   elems == decoded.Segments.elems
                   fresh == ZerosBefore(elems, Len(elems) + 1)
                   story == [decoded EXCEPT
                               !.Segments.elems = EnsureSegmentIDs(elems, nextOid)]
               IN /\ nextOid + fresh <= MaxOid + 1
                  /\ nextOid' = nextOid + fresh
                  /\ inflight' = [inflight EXCEPT ![h] =
                        [pc |-> "decoded", objectID |-> parsed.oid, story |-> story]]
                  /\ watch' = IF w THEN [h |-> h, oid |-> parsed.oid,
                                         body |-> body, story |-> story,
                                         base |-> nextOid, clean |-> TRUE,
                                         matched |-> 0, modified |-> 0]
                              ELSE watch
                  /\ resp' = NoResponse
                  /\ UNCHANGED <<store, now, s3, issued, deleted, removed, born>>

\* collection.UpdateOne.  Of the watched call the UpdateResult the handler
\* discards is kept: how many documents the filter matched and how many the
\* $set changed.
UpdateStoryWrite(h, ok) ==
    /\ inflight[h].pc = "decoded"
    /\ LET oid == inflight[h].objectID
           story == inflight[h].story
       IN /\ IF ok
             THEN /\ store' = UpdateOne(store, oid, story)
                  /\ inflight' = [inflight EXCEPT ![h] =
                        [pc |-> "written", objectID |-> oid]]
                  /\ watch' = IF watch.h = h
                              THEN [watch EXCEPT
                                      !.clean = TRUE,
                                      !.matched = IF store[oid] = NoDoc THEN 0 ELSE 1,
                                      !.modified = IF store' = store THEN 0 ELSE 1]
                              ELSE Overwritten(h, oid)
                  /\ resp' = NoResponse
             ELSE /\ resp' = Response("update", 500, HexOf(oid), TRUE, StoreError)
                  /\ inflight' = [inflight EXCEPT ![h] = Idle]
                  /\ watch' = IF watch.h = h THEN NoCall ELSE watch
                  /\ UNCHANGED store
          /\ UNCHANGED <<nextOid, now, s3, issued, deleted, removed, born>>

\* collection.FindOne(...).Decode(&updatedStory) and the response
UpdateStoryRead(h, ok) ==
    /\ inflight[h].pc = "written"
    /\ LET oid == inflight[h].objectID
           call == IF watch.h = h THEN watch ELSE NoCall
       IN /\ IF ok /\ store[oid] # NoDoc
             THEN resp' = StoryResponse("update", 200, HexOf(oid), call,
                                        StoryFromBson(store[oid]))
             ELSE resp' = ReadFailure(HexOf(oid), call,
                                      IF ok THEN ErrNoDocuments ELSE StoreError)
          /\ watch' = IF watch.h = h THEN NoCall ELSE watch
          /\ inflight' = [inflight EXCEPT ![h] = Idle]
          /\ UNCHANGED <<store, nextOid, now, s3, issued, deleted, removed, born>>

\* ------------------------------------------------- generateAudioUploadURL
\* Strings this handler takes apart or puts together are sequences of
\* characters.
Slash == <<"/">>
AudioName == <<"a", "u", "d", "i", "o">>

\* the storage configuration of docker-compose.yml
ComposeBucket == <<"m", "e", "d", "i", "a">>
ComposeEndpoint == <<"h", "t", "t", "p", ":", "/", "/", "l", "o", "c", "a", "l", "s", "t", "a", "c", "k", ":", "4", "5", "6", "6">>
ComposePublicHost == <<"h", "t", "t", "p", ":", "/", "/", "l", "o", "c", "a", "l", "h", "o", "s", "t", ":", "4", "5", "6", "6">>
\* the endpoint the S3 client resolves when S3_ENDPOINT is empty: for
\* AWS_REGION us-east-1 the global one
DefaultEndpoint == <<"h", "t", "t", "p", "s", ":", "/", "/", "s", "3", ".", "a", "m", "a", "z", "o", "n", "a", "w", "s", ".", "c", "o", "m">>

ComposeConfig ==
    [bucket |-> ComposeBucket, endpoint |-> ComposeEndpoint,
     publicHost |-> ComposePublicHost]

\* s has sub at position i
OccursAt(s, sub, i) ==
    /\ i + Len(sub) - 1 <= Len(s)
    /\ \A k \in 1..Len(sub) : s[i + k - 1] = sub[k]

\* strings.Index, counting from 1; 0 when sub does not occur
IndexOf(s, sub) ==
    IF \E i \in 1..(Len(s) + 1) : OccursAt(s, sub, i)
    THEN CHOOSE i \in 1..(Len(s) + 1) :
            /\ OccursAt(s, sub, i)
            /\ \A j \in 1..(i - 1) : ~OccursAt(s, sub, j)
    ELSE 0

\* strings.Replace(s, old, new, 1): the first occurrence only; an empty
\* `old` matches at the beginning of s
ReplaceFirst(s, old, new) ==
    LET i == IndexOf(s, old)
    IN IF i = 0 THEN s
       ELSE SubSeq(s, 1, i - 1) \o new \o SubSeq(s, i + Len(old), Len(s))

\* percent-encoding of the characters that occur and are not unreserved
Reserved == {"?", "#", " ", "%"}
PercentCode(c) ==
    CASE c = "?" -> <<"%", "3", "F">>
      [] c = "#" -> <<"%", "2", "3">>
      [] c = " " -> <<"%", "2", "0">>
      [] c = "%" -> <<"%", "2", "5">>
      [] OTHER -> <<c>>

\* the S3 client writes the object key into the URL path escaped, "/" kept
RECURSIVE EscapePath(_)
EscapePath(s) ==
    IF s = <<>> THEN <<>> ELSE PercentCode(Head(s)) \o EscapePath(Tail(s))

\* a signature that leaves out the signing time
Presign_Undated(endpoint, bucket, key, t) ==
    (IF endpoint = <<>> THEN DefaultEndpoint ELSE endpoint)
    \o Slash \o bucket \o Slash \o EscapePath(key)
    \o <<"?", "X-Amz-Expires=900", "&", "X-Amz-Signature=", "0">>

\* req.Presign(15 * time.Minute) of a PutObject request, path style: the
\* endpoint, the bucket, the escaped key, and the signed query, which
\* carries the signing time
Presign(endpoint, bucket, key, t) ==
    (IF endpoint = <<>> THEN DefaultEndpoint ELSE endpoint)
    \o Slash \o bucket \o Slash \o EscapePath(key)
    \o <<"?", "X-Amz-Expires=900", "&", "X-Amz-Date=", ToString(t),
         "&", "X-Amz-Signature=", ToString(t)>>

\* fmt.Sprintf("%s/%s/audio", storyID, segmentID)
ObjectName(storyID, segmentID) == storyID \o Slash \o segmentID \o Slash \o AudioName

\* fmt.Sprintf("%s/%s/%s", s3PublicHost, s3Bucket, objectName)
PublicURL(cfg, objectName) == cfg.publicHost \o Slash \o cfg.bucket \o Slash \o objectName

\* presignedURL after strings.Replace(presignedURL, s3Endpoint, s3PublicHost, 1)
UploadURL(cfg, objectName, t) ==
    ReplaceFirst(Presign(cfg.endpoint, cfg.bucket, objectName, t),
                 cfg.endpoint, cfg.publicHost)

\* the text of an {id} path variable, as the router hands it over
HexText(hex) ==
    IF hex.wellFormed THEN <<"0", "0", ToString(hex.digits)>>
    ELSE <<"n", "o", "t", "-", "h", "e", "x">>

\* the text of the error req.Presign returns
PresignError == "presign: failed to sign request"

\* what an answer of the handler is remembered by: the pair it was for, the
\* two URLs, and the time it was signed at
Issued(storyID, segmentID, cfg, t) ==
    [storyID |-> storyID, segmentID |-> segmentID,
     upload_url |-> UploadURL(cfg, ObjectName(storyID, segmentID), t),
     public_url |-> PublicURL(cfg, ObjectName(storyID, segmentID)),
     signedAt |-> t]

\* a handler that looks the story up before it signs, and answers 404 when
\* the collection holds no story of that id
GenerateAudioUploadURL_Checked(storyID, segmentID, ok) ==
    /\ IF ~\E oid \in AllOids : storyID = HexText(HexOf(oid)) /\ store[oid] # NoDoc
       THEN /\ resp' = [op |-> "audio", status |-> 404, msg |-> ErrNoDocuments]
            /\ UNCHANGED issued
       ELSE IF ok
       THEN LET answer == Issued(storyID, segmentID, s3, now)
            IN /\ resp' = [op |-> "audio", status |-> 200,
                           storyID |-> storyID, segmentID |-> segmentID,
                           upload_url |-> answer.upload_url,
                           public_url |-> answer.public_url,
                           signedAt |-> now, prev |-> issued]
               /\ issued' = answer
       ELSE /\ resp' = [op |-> "audio", status |-> 500, msg |-> PresignError]
            /\ UNCHANGED issued
    /\ UNCHANGED <<store, nextOid, now, inflight, watch, s3, deleted, removed, born>>

\* `ok` is whether req.Presign returns without an error.  The handler makes
\* no call to the document store.  History: the answer carries the time it
\* was signed at and the answer issued before it (`prev`).
GenerateAudioUploadURL(storyID, segmentID, ok) ==
    /\ IF ok
       THEN LET answer == Issued(storyID, segmentID, s3, now)
            IN /\ resp' = [op |-> "audio", status |-> 200,
                           storyID |-> storyID, segmentID |-> segmentID,
                           upload_url |-> answer.upload_url,
                           public_url |-> answer.public_url,
                           signedAt |-> now, prev |-> issued]
               /\ issued' = answer
       ELSE /\ resp' = [op |-> "audio", status |-> 500, msg |-> PresignError]
            /\ UNCHANGED issued
    /\ UNCHANGED <<store, nextOid, now, inflight, watch, s3, deleted, removed, born>>

\* time passes between two requests
Tick ==
    /\ now < MaxTime
    /\ now' = now + 1
    /\ UNCHANGED <<store, nextOid, inflight, watch, resp, s3, issued, deleted, removed, born>>

\* -------- how a client of the object store reads a URL (RFC 3986)
\* position of the first of the characters `stops` in s, Len(s) + 1 if none
FirstOf(s, stops) ==
    IF \E i \in 1..Len(s) : s[i] \in stops
    THEN CHOOSE i \in 1..Len(s) :
            s[i] \in stops /\ \A j \in 1..(i - 1) : s[j] \notin stops
    ELSE Len(s) + 1

\* percent-decoding
RECURSIVE Unescape(_)
Unescape(s) ==
    IF s = <<>> THEN <<>>
    ELSE IF \E c \in Reserved : OccursAt(s, PercentCode(c), 1)
         THEN <<CHOOSE c \in Reserved : OccursAt(s, PercentCode(c), 1)>>
              \o Unescape(SubSeq(s, 4, Len(s)))
         ELSE <<Head(s)>> \o Unescape(Tail(s))

\* the path of a URL: what follows "scheme://authority" (or the whole of a
\* URL without a scheme) up to the query or fragment, percent-decoded
URLPath(url) ==
    LET sep == IndexOf(url, <<":", "/", "/">>)
        afterScheme == IF sep = 0 THEN url ELSE SubSeq(url, sep + 3, Len(url))
        slash == FirstOf(afterScheme, {"/", "?", "#"})
        fromPath == IF sep = 0 THEN url
                    ELSE SubSeq(afterScheme, slash, Len(afterScheme))
    IN Unescape(SubSeq(fromPath, 1, FirstOf(fromPath, {"?", "#"}) - 1))

\* the object a path-style URL addresses in `bucket`: the path after
\* "/bucket/"; no object when the path does not start so
ObjectOf(url, bucket) ==
    LET path == URLPath(url)
        prefix == Slash \o bucket \o Slash
    IN IF OccursAt(path, prefix, 1)
       THEN [found |-> TRUE, key |-> SubSeq(path, Len(prefix) + 1, Len(path))]
       ELSE [found |-> FALSE]

\* the {storyId} and {segmentId} path variables: the router hands over any
\* non-empty text without "/", percent-decoded
PathVars ==
    { <<"6", "5", "a", "f">>, <<"0", "1", "b", "c">>, <<"s", "1">>,
      <<"a", "?", "b">>, <<"a", "#", "b">>, <<"a", " ", "b">>, <<"5", "0", "%">> }

\* storage configurations: docker-compose.yml's, one host for both
\* endpoints, and both endpoints left empty
Configs ==
    { ComposeConfig,
      [ComposeConfig EXCEPT !.endpoint = ComposePublicHost],
      [ComposeConfig EXCEPT !.endpoint = <<>>, !.publicHost = <<>>] }

\* ------------------------------------------------------- the state machine
Init ==
    /\ store = [oid \in AllOids |-> NoDoc]
    /\ nextOid = 1
    /\ now = 1
    /\ inflight = [h \in Handlers |-> Idle]
    /\ watch = NoCall
    /\ resp = NoResponse
    /\ s3 = ComposeConfig
    /\ deleted = {}
    /\ removed = {}
    /\ born = [oid \in AllOids |-> 0]
    /\ issued = NoResponse

\* The handler that wrote the response returns: the response is on its way
\* to the client.  A step that answers is followed by this one, so `resp`
\* always is the answer of the step just taken.
Return ==
    /\ resp # NoResponse
    /\ resp' = NoResponse
    /\ UNCHANGED <<store, nextOid, now, inflight, watch, s3, issued, deleted, removed, born>>

Ready == resp = NoResponse

\* Requests served concurrently: any handler step may follow any other.
\* The handlers are interchangeable: the watched updateStory calls are h1's.
Next ==
    \/ Ready /\ \E h \in Handlers, body \in RaceBodies : CreateStoryDecode(h, body)
    \/ Ready /\ \E h \in Handlers, ok \in BOOLEAN : CreateStoryInsert(h, ok)
    \/ Ready /\ \E hex \in HexIds, ok \in BOOLEAN : DeleteStory(hex, ok)
    \/ Ready /\ \E h \in Handlers, hex \in HexIds, body \in RaceBodies :
          UpdateStoryDecode(h, hex, body, h = "h1")
    \/ Ready /\ \E h \in Handlers, ok \in BOOLEAN : UpdateStoryWrite(h, ok)
    \/ Ready /\ \E h \in Handlers, ok \in BOOLEAN : UpdateStoryRead(h, ok)
    \/ Return

Spec == Init /\ [][Next]_vars

\* Requests served concurrently, with the bodies of a client that edits a
\* story.  The handlers are interchangeable: the watched updateStory call,
\* with any of EditBodies, is h1's, and the calls that overlap it are h2's.
NextEdit ==
    \/ Ready /\ \E h \in Handlers, body \in CreateBodies : CreateStoryDecode(h, body)
    \/ Ready /\ \E h \in Handlers, ok \in BOOLEAN : CreateStoryInsert(h, ok)
    \/ Ready /\ \E hex \in HexIds, ok \in BOOLEAN : DeleteStory(hex, ok)
    \/ Ready /\ \E hex \in HexIds, body \in EditBodies :
          UpdateStoryDecode("h1", hex, body, TRUE)
    \/ Ready /\ \E hex \in HexIds, body \in OverlapBodies :
          UpdateStoryDecode("h2", hex, body, FALSE)
    \/ Ready /\ \E h \in Handlers, ok \in BOOLEAN : UpdateStoryWrite(h, ok)
    \/ Ready /\ \E h \in Handlers, ok \in BOOLEAN : UpdateStoryRead(h, ok)
    \/ Return

SpecEdit == Init /\ [][NextEdit]_vars

\* The upload URL handler under each storage configuration, with time
\* passing between requests.
InitUrl ==
    /\ store = [oid \in AllOids |-> NoDoc]
    /\ nextOid = 1
    /\ now = 1
    /\ inflight = [h \in Handlers |-> Idle]
    /\ watch = NoCall
    /\ resp = NoResponse
    /\ s3 \in Configs
    /\ deleted = {}
    /\ removed = {}
    /\ born = [oid \in AllOids |-> 0]
    /\ issued = NoResponse

NextUrl ==
    \/ Ready /\ \E storyID, segmentID \in PathVars, ok \in BOOLEAN :
          GenerateAudioUploadURL(storyID, segmentID, ok)
    \/ Ready /\ Tick
    \/ Return

SpecUrl == InitUrl /\ [][NextUrl]_vars

\* The upload URL handler next to creates, updates and deletes of stories,
\* all served concurrently.  The bodies carry a title and a list of one new
\* segment; the {storyId} path variable is one of HexIds, {segmentId} a
\* foreign id.
MediaBodies ==
    { JsonBody(("title" :> "T") @@ ("segments" :> <<NewSegment>>)) }

MediaSegments == { HexOf(oid) : oid \in ForeignOids }

NextMedia ==
    \/ Ready /\ \E story \in HexIds, segment \in MediaSegments, ok \in BOOLEAN :
          GenerateAudioUploadURL(HexText(story), HexText(segment), ok)
    \/ Ready /\ \E h \in Handlers, body \in MediaBodies : CreateStoryDecode(h, body)
    \/ Ready /\ \E h \in Handlers, ok \in BOOLEAN : CreateStoryInsert(h, ok)
    \/ Ready /\ \E hex \in HexIds, ok \in BOOLEAN : DeleteStory(hex, ok)
    \/ Ready /\ \E h \in Handlers, hex \in HexIds, body \in MediaBodies :
          UpdateStoryDecode(h, hex, body, FALSE)
    \/ Ready /\ \E h \in Handlers, ok \in BOOLEAN : UpdateStoryWrite(h, ok)
    \/ Ready /\ \E h \in Handlers, ok \in BOOLEAN : UpdateStoryRead(h, ok)
    \/ Return

SpecMedia == Init /\ [][NextMedia]_vars

\* ------------------------------------------------------------ properties
\* the answer just written is the 200 of a watched updateStory call
UpdateAnswered == resp.op = "update" /\ resp.status = 200 /\ resp.call # NoCall
\* the answer just written is the 201 of a createStory call
CreateAnswered == resp.op = "create" /\ resp.status = 201
\* the ObjectID a response's story id stands for
OidOf(r) == ObjectIDFromHex(r.id).oid
\* the "segments" array of a stored document holds n segments
StoredArray(doc, n) ==
    doc["segments"].type = "array" /\ Len(doc["segments"].elems) = n

\* the identities of the story an answered update call returned and stored:
\* at every position i the identity the incoming segment i carried, and
\* where it carried none, a non-empty identity that was handed out by this
\* call: one the server had not handed out before.
KeepsOrAssignsIdentity ==
        LET incoming == Decode(resp.call.body.json).Segments.elems
            returned == resp.story.Segments.elems
            doc == store[OidOf(resp)]
        IN /\ Len(returned) = Len(incoming)
           /\ Len(incoming) > 0 => StoredArray(doc, Len(incoming))
           /\ \A i \in 1..Len(incoming) :
                /\ "_id" \in DOMAIN doc["segments"].elems[i]
                /\ doc["segments"].elems[i]["_id"] = returned[i].ID
                /\ IF ~IsZero(incoming[i].ID)
                   THEN returned[i].ID = incoming[i].ID
                   ELSE /\ ~IsZero(returned[i].ID)
                        /\ returned[i].ID >= resp.call.base
                        /\ returned[i].ID < nextOid

\* the answered update call was one of an existing story: its UpdateOne
\* matched a stored document
OfExistingStory == UpdateAnswered /\ resp.call.matched = 1

Written(call) ==
    <<call.story.Title, call.story.Segments, call.story.IsPublished>>
Returned(story) == <<story.Title, story.Segments, story.IsPublished>>

\* C2 as stated: every successful update, also one that runs concurrently
\* with other updates of the same story, returns the title, segment list and
\* publication flag it wrote itself, with the stored identity and CreatedAt.
C2_ReturnsOwnWrite ==
    UpdateAnswered =>
        /\ Returned(resp.story) = Written(resp.call)
        /\ resp.story.ID = OidOf(resp)
        /\ resp.story.CreatedAt = born[OidOf(resp)]

\* C2 amended: a successful update returns the document stored for its id at
\* the moment of its re-read, with the stored identity and CreatedAt; the
\* title, segment list and publication flag are the ones this call wrote
\* whenever the story was stored when the call wrote and no other update
\* wrote the story between its write and its re-read.
C2_ReturnsStoredDocument ==
    UpdateAnswered =>
        /\ StoryToBson(resp.story) = store[OidOf(resp)]
        /\ resp.story.ID = OidOf(resp)
        /\ resp.story.CreatedAt = born[OidOf(resp)]
        /\ (resp.call.matched = 1 /\ resp.call.clean)
              => Returned(resp.story) = Written(resp.call)

\* C2 witness: a watched update is answered while another update of the same
\* story, which wrote first, is still before its re-read.
C2_Witness ==
    /\ UpdateAnswered
    /\ resp.call.matched = 1
    /\ resp.call.clean
    /\ \E h \in Handlers :
          /\ h # resp.call.h
          /\ inflight[h].pc = "written"
          /\ inflight[h].objectID = OidOf(resp)

\* C3 as stated: once a delete of an id has answered 204, whether or not it
\* found a story to remove, every update of that id is answered with a
\* failure, 500 when the request is well-formed (400 when its body is not),
\* never 200.
C3_NoUpdateAfterAnyDelete ==
    \A oid \in deleted :
        (resp.op = "update" /\ resp.id = HexOf(oid)) =>
            resp.status = IF resp.valid THEN 500 ELSE 400

\* C3 amended: once a delete has removed the story stored under an id, no
\* document is stored under that id, and every update of that id is answered
\* with a failure: 500 when the request is well-formed (400 when its body is
\* not), never 200.
C3_NoUpdateAfterDelete ==
    \A oid \in removed :
        /\ store[oid] = NoDoc
        /\ (resp.op = "update" /\ resp.id = HexOf(oid)) =>
              resp.status = IF resp.valid THEN 500 ELSE 400

\* C3 witness: a well-formed update of a story that was created and then
\* deleted found no document to return and is answered 500.
C3_Witness ==
    /\ resp.op = "update"
    /\ resp.status = 500
    /\ resp.msg = ErrNoDocuments
    /\ OidOf(resp) \in removed
    /\ born[OidOf(resp)] # 0

\* C5: a create whose body has no segment list stores and returns an empty
\* segment array, not null.
C5_CreateNormalizesSegments ==
    (CreateAnswered /\ "segments" \notin DOMAIN resp.call.body.json) =>
        /\ resp.story.Segments = MakeSlice(<<>>)
        /\ store[OidOf(resp)]["segments"] = BsonArray(<<>>)

\* C5 witness: a create without a segment list was answered 201.
C5_Witness ==
    /\ CreateAnswered
    /\ "segments" \notin DOMAIN resp.call.body.json
    /\ store[OidOf(resp)] # NoDoc

\* C6: every stored story has a segment list that is an array, never null.
C6_SegmentsNeverNull ==
    \A oid \in AllOids :
        store[oid] # NoDoc => store[oid]["segments"].type = "array"

\* C7: every segment of every stored story, and of every story returned by
\* create or update, carries a non-empty identity.
C7_EverySegmentHasIdentity ==
    /\ \A oid \in AllOids :
          (store[oid] # NoDoc /\ store[oid]["segments"].type = "array") =>
              \A i \in 1..Len(store[oid]["segments"].elems) :
                  "_id" \in DOMAIN store[oid]["segments"].elems[i]
    /\ (resp.op \in {"create", "update"} /\ resp.status \in {200, 201}) =>
          \A i \in 1..Len(resp.story.Segments.elems) :
              ~IsZero(resp.story.Segments.elems[i].ID)

\* C8: no two segments of a stored story carry the same identity.
C8_SegmentIdentityUnique ==
    \A oid \in AllOids :
        (store[oid] # NoDoc /\ store[oid]["segments"].type = "array") =>
            LET segs == store[oid]["segments"].elems
            IN \A i, j \in 1..Len(segs) :
                  (i # j /\ "_id" \in DOMAIN segs[i] /\ "_id" \in DOMAIN segs[j])
                      => segs[i]["_id"] # segs[j]["_id"]

\* C9: a stored story keeps the identity and the CreatedAt that createStory
\* stored, whatever updates were made to it and whatever id and creation
\* time their bodies carried.
C9_UpdateKeepsIdAndCreatedAt ==
    \A oid \in AllOids :
        store[oid] # NoDoc =>
            /\ store[oid]["_id"] = oid
            /\ store[oid]["created_at"] = born[oid]

\* C9 witness: an update whose body carried an id and a creation time of the
\* client's own was answered 200.
C9_Witness ==
    /\ UpdateAnswered
    /\ resp.call.story.ID \in ForeignOids
    /\ resp.call.story.CreatedAt \in ClientTimes
    /\ store[OidOf(resp)]["created_at"] \notin ClientTimes

\* C10: a create, update or delete whose id does not parse or whose body is
\* not JSON is answered 400 and leaves the store as it was.
C10_InvalidRequestHasNoEffect ==
    [][(resp'.op \in {"create", "update", "delete"} /\ ~resp'.valid)
          => (resp'.status = 400 /\ store' = store)]_vars

\* C10 witness: an update of a stored story with a malformed body was
\* answered 400.
C10_Witness ==
    /\ resp.op = "update"
    /\ ~resp.valid
    /\ resp.status = 400
    /\ resp.id.wellFormed
    /\ store[OidOf(resp)] # NoDoc

\* C4: under every storage configuration and for every (storyId, segmentId)
\* pair, the upload URL and the public URL of an answer address the same
\* object of the bucket, and that object is {storyId}/{segmentId}/audio.
C4_UploadAndPublicSameObject ==
    (resp.op = "audio" /\ resp.status = 200) =>
        LET name == ObjectName(resp.storyID, resp.segmentID)
            up == ObjectOf(resp.upload_url, s3.bucket)
            pub == ObjectOf(resp.public_url, s3.bucket)
        IN /\ up = [found |-> TRUE, key |-> name]
           /\ pub = up

\* the three fields a $set writes, as a document holds them
StoredFields(doc) == <<doc["title"], doc["segments"], doc["is_published"]>>
\* ... and as UpdateOne writes them for a story
WrittenFields(story) ==
    <<story.Title, SegmentsToBson(story.Segments), story.IsPublished>>
\* the call's UpdateOne matched a document and changed it
Changed(call) == call.matched = 1 /\ call.modified = 1

\* C11: a create, update or delete that answers with a failure has left the
\* store as it was: the failing step changes nothing, and a failing update
\* had not changed the story by its write either.
C11_NoPartialSuccess ==
    [][(resp'.op \in {"create", "update", "delete"} /\ resp'.status >= 400)
          => /\ store' = store
             /\ ("call" \in DOMAIN resp' /\ resp'.call # NoCall)
                   => ~Changed(resp'.call)]_vars

\* C12: a delete of a well-formed id that the store answers is answered 204
\* whether or not a story is stored under the id; it leaves no document
\* under the id and every other document as it was, so a delete of an id
\* that is not in the store, a second delete of the same id included, leaves
\* the store unchanged.
C12_DeleteIdempotent ==
    [][(resp'.op = "delete" /\ resp'.id.wellFormed) =>
          LET oid == OidOf(resp')
          IN /\ resp'.status = 204 \/ (resp'.status = 500 /\ resp'.msg = StoreError)
             /\ resp'.status = 204 =>
                   /\ store'[oid] = NoDoc
                   /\ \A other \in AllOids \ {oid} : store'[other] = store[other]
                   /\ store[oid] = NoDoc => store' = store]_vars

\* C12 witness: a second delete of a story that was created and deleted
\* before matched nothing and was answered 204.
C12_Witness ==
    /\ resp.op = "delete"
    /\ resp.status = 204
    /\ resp.deletedCount = 0
    /\ born[OidOf(resp)] # 0
    /\ store[OidOf(resp)] = NoDoc

\* The request as the wire contract reads it: the body's keys are among
\* title, segments and is_published, and a key it omits stands for "", no
\* segments and false.
WireKeys == {"title", "segments", "is_published"}
OnWire(json) == DOMAIN json \subseteq WireKeys
WireTitle(json) == IF "title" \in DOMAIN json THEN json["title"] ELSE ""
WireSegments(json) == IF "segments" \in DOMAIN json THEN json["segments"] ELSE <<>>
WireFlag(json) == IF "is_published" \in DOMAIN json THEN json["is_published"] ELSE FALSE

\* C13: after a successful update of an existing story that no other update
\* of the story has overwritten,
\* the stored title and publication flag are the request's, and the stored
\* segment list has the request's length, segment i carrying the Audio, Image
\* and Script of request segment i.
C13_UpdateReplacesWholesale ==
    (UpdateAnswered /\ resp.call.clean /\ OnWire(resp.call.body.json)) =>
        LET json == resp.call.body.json
            doc == store[OidOf(resp)]
            stored == SegmentsFromBson(doc["segments"]).elems
            sent == WireSegments(json)
        IN /\ doc["title"] = WireTitle(json)
           /\ doc["is_published"] = WireFlag(json)
           /\ Len(stored) = Len(sent)
           /\ \A i \in 1..Len(sent) :
                 /\ stored[i].Audio = sent[i].Audio
                 /\ stored[i].Image = sent[i].Image
                 /\ stored[i].Script = sent[i].Script

\* C15: a create or update whose body carries is_published set to true
\* stores and returns a story whose publication flag is true, and one whose
\* body omits it a story whose flag is false.
C15_WireContractFlag ==
    ((CreateAnswered \/ UpdateAnswered) /\ OnWire(resp.call.body.json)) =>
        /\ resp.story.IsPublished = WireFlag(resp.call.body.json)
        /\ store[OidOf(resp)]["is_published"] = WireFlag(resp.call.body.json)

\* the upload URL answer just written is for the pair the answer before it
\* was for
Again ==
    /\ resp.op = "audio"
    /\ resp.status = 200
    /\ resp.prev # NoResponse
    /\ resp.prev.storyID = resp.storyID
    /\ resp.prev.segmentID = resp.segmentID

\* C14 as stated: two answers for the same (storyId, segmentId) under one
\* storage configuration carry the same public URL and two different signed
\* upload URLs.
C14_TwoDifferentSignedURLs ==
    Again =>
        /\ resp.public_url = resp.prev.public_url
        /\ resp.upload_url # resp.prev.upload_url

\* C14 amended: two answers for the same (storyId, segmentId) under one
\* storage configuration carry the same public URL, and two different signed
\* upload URLs whenever they were signed at different times of the clock.
C14_DifferentWhenSignedLater ==
    Again =>
        /\ resp.public_url = resp.prev.public_url
        /\ resp.signedAt # resp.prev.signedAt
              => resp.upload_url # resp.prev.upload_url

\* C14 witness: the second answer for a pair, signed later than the first
\* under the docker-compose configuration, with another signed URL.
C14_Witness ==
    /\ Again
    /\ s3 = ComposeConfig
    /\ resp.signedAt > resp.prev.signedAt
    /\ resp.upload_url # resp.prev.upload_url
    /\ resp.public_url = resp.prev.public_url

\* C17: issuing an upload URL leaves the store, every segment identity in it
\* and the ids still to be handed out as they were, and is answered 200 for
\* every pair, whatever the store holds, unless the signing itself fails.
C17_UploadURLLeavesStoreAlone ==
    [][resp'.op = "audio" =>
          /\ store' = store
          /\ nextOid' = nextOid
          /\ resp'.status = 200 \/ (resp'.status = 500 /\ resp'.msg = PresignError)]_vars

\* C17 witness: an upload URL was issued for the id of a story that is not
\* in the store, while the store holds a story with a segment that has no
\* identity.
C17_Witness ==
    /\ resp.op = "audio"
    /\ resp.status = 200
    /\ \E oid \in AllOids :
          /\ resp.storyID = HexText(HexOf(oid))
          /\ store[oid] = NoDoc
    /\ \E oid \in AllOids :
          /\ store[oid] # NoDoc
          /\ StoredArray(store[oid], 1)
          /\ "_id" \notin DOMAIN store[oid]["segments"].elems[1]

\* C16: as long as no other update has written the story after it, the
\* stored title, segment list and publication flag are all three the ones an
\* update call of the story (one whose write found the story stored) wrote,
\* whatever other updates of the story wrote before it and are still in
\* flight; this holds while the call is between its write and its re-read
\* and when it is answered.
C16_LastWriteWins ==
    /\ (/\ watch # NoCall
        /\ inflight[watch.h].pc = "written"
        /\ watch.matched = 1
        /\ watch.clean
        /\ store[watch.oid] # NoDoc) =>
          StoredFields(store[watch.oid]) = WrittenFields(watch.story)
    /\ (UpdateAnswered /\ resp.call.matched = 1 /\ resp.call.clean) =>
          StoredFields(store[OidOf(resp)]) = WrittenFields(resp.call.story)

\* C16 witness: two updates of one story are in flight; the watched one
\* wrote last and changed the document the other had written, and the store
\* holds its three fields.
C16_Witness ==
    /\ watch # NoCall
    /\ inflight[watch.h].pc = "written"
    /\ watch.clean
    /\ \E h \in Handlers :
          /\ h # watch.h
          /\ inflight[h].pc = "written"
          /\ inflight[h].objectID = watch.oid
    /\ Changed(watch)
    /\ StoredFields(store[watch.oid]) = WrittenFields(watch.story)

\* C18: once a delete has removed a story, no update of it brings it back:
\* while an update of the id is between its write and its re-read, and when
\* it is answered, the store holds no document for the id, and the answer
\* is not a 200.
C18_UpdateNeverResurrects ==
    /\ \A h \in Handlers :
          (inflight[h].pc = "written" /\ inflight[h].objectID \in removed) =>
              store[inflight[h].objectID] = NoDoc
    /\ \A oid \in removed :
          (resp.op = "update" /\ resp.id = HexOf(oid) /\ resp.valid) =>
              /\ store[oid] = NoDoc
              /\ resp.status # 200

\* C18 witness: an update wrote a stored story, a delete then removed it,
\* and the update's re-read found no document: it is answered 500 and the
\* store holds nothing for the id.
C18_Witness ==
    /\ resp.op = "update"
    /\ resp.status = 500
    /\ resp.msg = ErrNoDocuments
    /\ resp.call # NoCall
    /\ resp.call.matched = 1
    /\ OidOf(resp) \in removed
    /\ store[OidOf(resp)] = NoDoc
====
